---- MODULE Spec2Model ----
(***************************************************************************)
(* Model of the two import-path codemods of scripta-agent:                 *)
(*   update_imports.py  (Relocation: src/components -> src/cli/components) *)
(*   use_core_alias.py  (Aliasing:   relative imports of src/core -> @core)*)
(*                                                                         *)
(* Text is modelled character by character: a file's content, a line and   *)
(* an import path are strings, and the regular expressions, str.replace,   *)
(* str.splitlines and the pathlib/os.path operations are operators that    *)
(* compute what the Python functions compute.  Absolute paths are          *)
(* sequences of path segments (pathlib's `parts` without the anchor).      *)
(* The tree is POSIX and free of symbolic links, so Path.resolve() is the  *)
(* lexical normalisation and os.linesep is "\n".                           *)
(***************************************************************************)
EXTENDS Integers, Sequences, FiniteSets, TLC

(***************************************************************************)
(* Python str primitives                                                   *)
(***************************************************************************)
\* s[i-1], the empty string outside the string
Char(s, i) == IF i >= 1 /\ i <= Len(s) THEN SubSeq(s, i, i) ELSE ""

StartsWithAt(s, p, i) ==
    /\ i >= 1
    /\ i + Len(p) - 1 <= Len(s)
    /\ SubSeq(s, i, i + Len(p) - 1) = p

startswith(s, p) == StartsWithAt(s, p, 1)

endswith(s, p) == StartsWithAt(s, p, Len(s) - Len(p) + 1)

\* the least element of a non-empty set of integers
Min(S) == CHOOSE m \in S : \A n \in S : m <= n

\* str.find from position i: index of the first occurrence, 0 when absent
find(s, sub, i) ==
    LET at == {k \in i..(Len(s) - Len(sub) + 1) : StartsWithAt(s, sub, k)} IN
    IF at = {} THEN 0 ELSE Min(at)

\* str.replace(old, new): every non-overlapping occurrence, left to right
RECURSIVE replace(_, _, _)
replace(s, old, new) ==
    LET k == find(s, old, 1) IN
    IF k = 0 THEN s
    ELSE SubSeq(s, 1, k - 1) \o new \o
         replace(SubSeq(s, k + Len(old), Len(s)), old, new)

\* str.split(sep) for a one-character separator
RECURSIVE split(_, _)
split(s, sep) ==
    LET k == find(s, sep, 1) IN
    IF k = 0 THEN <<s>>
    ELSE <<SubSeq(s, 1, k - 1)>> \o split(SubSeq(s, k + 1, Len(s)), sep)

\* sep.join(parts)
RECURSIVE join(_, _)
join(parts, sep) ==
    IF Len(parts) = 0 THEN ""
    ELSE IF Len(parts) = 1 THEN parts[1]
    ELSE parts[1] \o sep \o join(Tail(parts), sep)

\* str.lower() on the letters an answer to the prompt is made of
LowerChar(c) ==
    CASE c = "Y" -> "y"
      [] c = "E" -> "e"
      [] c = "S" -> "s"
      [] c = "N" -> "n"
      [] c = "O" -> "o"
      [] OTHER -> c

RECURSIVE lower(_)
lower(s) == IF Len(s) = 0 THEN "" ELSE LowerChar(Char(s, 1)) \o lower(Tail(s))

\* the line boundaries str.splitlines() recognises (those the model uses)
LineBreaks == {"\n", "\r", "\f"}

\* str.splitlines(): no empty last element after a final line break
RECURSIVE splitlines_from(_, _)
splitlines_from(s, i) ==
    IF i > Len(s) THEN <<>>
    ELSE LET brk == {k \in i..Len(s) : Char(s, k) \in LineBreaks} IN
         IF brk = {} THEN <<SubSeq(s, i, Len(s))>>
         ELSE LET k == Min(brk)
                  w == IF StartsWithAt(s, "\r\n", k) THEN 2 ELSE 1
              IN <<SubSeq(s, i, k - 1)>> \o splitlines_from(s, k + w)

splitlines(s) == splitlines_from(s, 1)

(***************************************************************************)
(* Path Identity Resolver: pathlib / os.path on symlink-free POSIX paths   *)
(***************************************************************************)
\* Path(text).parts for a relative text: pathlib drops empty and "." parts
PathParts(text) ==
    SelectSeq(split(text, "/"), LAMBDA x : x # "" /\ x # ".")

\* PurePath.as_posix(): the parts joined by "/", "." for the empty path
as_posix(parts) == IF Len(parts) = 0 THEN "." ELSE join(parts, "/")

\* Path.resolve(): ".." removes the part before it, and stays at the root
RECURSIVE normalize(_, _)
normalize(acc, rest) ==
    IF Len(rest) = 0 THEN acc
    ELSE IF Head(rest) = ".."
         THEN normalize(SubSeq(acc, 1, Len(acc) - 1), Tail(rest))
         ELSE normalize(Append(acc, Head(rest)), Tail(rest))

\* (dir / text).resolve()
resolve(dir, text) == normalize(<<>>, dir \o PathParts(text))

\* Path.parent
parent(path) == SubSeq(path, 1, Len(path) - 1)

\* is_relative_to as a comparison of the path strings
is_relative_to_by_text(path, base) ==
    startswith(join(path, "/"), join(base, "/"))

\* is_relative_to(path, base): relative_to succeeds iff base's parts are a
\* prefix of path's parts
is_relative_to(path, base) ==
    /\ Len(base) <= Len(path)
    /\ SubSeq(path, 1, Len(base)) = base

\* path.relative_to(base), for is_relative_to(path, base)
relative_to(path, base) == SubSeq(path, Len(base) + 1, Len(path))

RECURSIVE commonprefix(_, _)
commonprefix(a, b) ==
    IF Len(a) = 0 \/ Len(b) = 0 THEN 0
    ELSE IF Head(a) # Head(b) THEN 0
    ELSE 1 + commonprefix(Tail(a), Tail(b))

\* os.path.relpath(path, start) for two absolute normalised paths
relpath(path, start) ==
    LET i   == commonprefix(path, start)
        rel == [k \in 1..(Len(start) - i) |-> ".."] \o
               SubSeq(path, i + 1, Len(path))
    IN IF Len(rel) = 0 THEN "." ELSE join(rel, "/")

(***************************************************************************)
(* Reference Locator: IMPORT_REGEX.search(line)                            *)
(*   update_imports:  import\s+(?:.+?\s+from\s+)?(['"])([.][^'"]+)\1       *)
(*   use_core_alias:  import\s+(?:.+?\s+from\s+)?(['"])([.]{2}/[^'"]+)\1   *)
(* The two differ in the literal the path begins with (`lead`).  A line    *)
(* holds no line break, so \s is a blank or a tab and . is any character.  *)
(***************************************************************************)
IsSpace(c) == c \in {" ", "\t"}

IsQuote(c) == c \in {"'", "\""}

\* last index of the run of \s that starts at i (i - 1 when there is none)
SpaceRunEnd(s, i) ==
    IF ~IsSpace(Char(s, i)) THEN i - 1
    ELSE Min({k \in (i + 1)..(Len(s) + 1) : ~IsSpace(Char(s, k))}) - 1

\* last index of the run of [^'"] that starts at i (i - 1 when there is none)
NonQuoteRunEnd(s, i) ==
    Min({k \in i..(Len(s) + 1) : k > Len(s) \/ IsQuote(Char(s, k))}) - 1

\* (['"])(lead[^'"]+)\1 anchored at q: the index of the closing quote, or 0.
\* [^'"]+ runs up to the next quote of either kind (at e + 1), which must
\* be \1.
QuoteClose(s, q, lead, e) ==
    IF /\ IsQuote(Char(s, q))
       /\ StartsWithAt(s, lead, q + 1)
       /\ e >= q + 1 + Len(lead)
       /\ Char(s, e + 1) = Char(s, q)
    THEN e + 1 ELSE 0

QuoteEnd(s, q, lead) ==
    QuoteClose(s, q, lead, NonQuoteRunEnd(s, q + 1 + Len(lead)))

\* \s+(['"])(...)\1 where the blanks run from b to e2: the index of the
\* opening quote, or 0
QuoteAfterBlanks(s, b, e2, lead) ==
    IF e2 >= b /\ QuoteEnd(s, e2 + 1, lead) # 0 THEN e2 + 1 ELSE 0

\* from\s+(['"])(...)\1 after blanks that end at e1
FromAfterBlanks(s, e1, lead) ==
    IF StartsWithAt(s, "from", e1 + 1)
    THEN QuoteAfterBlanks(s, e1 + 5, SpaceRunEnd(s, e1 + 5), lead)
    ELSE 0

\* \s+from\s+(['"])(...)\1 anchored at p: the index of the opening quote, or 0
FromTail(s, p, lead) ==
    IF IsSpace(Char(s, p))
    THEN FromAfterBlanks(s, SpaceRunEnd(s, p), lead)
    ELSE 0

\* The pattern anchored at i, the blanks after `import` ending at r, and G
\* the places after them where \s+from\s+(['"])(...)\1 matches.  The engine
\* tries in order:
\*   the optional group with the lazy .+? starting after all the blanks,
\*     ending at the first place the rest of the pattern matches;
\*   no group, the quote right after the blanks;
\*   the group with .+? taking some of the blanks (at least three blanks,
\*     then `from`).
MatchChoice(s, i, r, lead, G) ==
    IF G # {} THEN FromTail(s, Min(G), lead)
    ELSE IF QuoteEnd(s, r + 1, lead) # 0 THEN r + 1
    ELSE IF r >= i + 8 THEN FromAfterBlanks(s, r, lead)
    ELSE 0

MatchAfterBlanks(s, i, r, lead) ==
    IF r < i + 6 THEN 0
    ELSE MatchChoice(s, i, r, lead,
                     {p \in (r + 2)..Len(s) : FromTail(s, p, lead) # 0})

\* the whole pattern anchored at i: the index of the opening quote, or 0
MatchAt(s, i, lead) ==
    IF StartsWithAt(s, "import", i)
    THEN MatchAfterBlanks(s, i, SpaceRunEnd(s, i + 6), lead)
    ELSE 0

\* the match object: stmt is group(0), quote group(1), path group(2), at
\* is start(2) counted from 1; found |-> FALSE is Python's None
MatchGroups(line, i, q, e) ==
    [found |-> TRUE,
     at    |-> q + 1,
     stmt  |-> SubSeq(line, i, e),
     quote |-> Char(line, q),
     path  |-> SubSeq(line, q + 1, e - 1)]

MatchFrom(line, i, q, lead) == MatchGroups(line, i, q, QuoteEnd(line, q, lead))

LeftmostMatch(line, lead, M) ==
    IF M = {}
    THEN [found |-> FALSE, at |-> 0, stmt |-> "", quote |-> "", path |-> ""]
    ELSE MatchFrom(line, Min(M), MatchAt(line, Min(M), lead), lead)

\* re.search: the leftmost position the pattern matches at
IMPORT_REGEX_search(line, lead) ==
    LeftmostMatch(line, lead,
                  {i \in 1..Len(line) : MatchAt(line, i, lead) # 0})

(***************************************************************************)
(* Configuration (module-level constants of the two scripts)               *)
(***************************************************************************)
WORKSPACE_ROOT == <<"w">>

SRC_DIR == <<"src">>

OLD_COMPONENTS_REL_PATH == <<"components">>

NEW_COMPONENTS_REL_PATH == <<"cli", "components">>

CORE_DIR_REL_PATH == <<"core">>

TARGET_DIRS_REL == << <<"cli">>, <<"entrypoints">> >>

SRC_ABS_PATH == WORKSPACE_ROOT \o SRC_DIR

OLD_COMPONENTS_ABS_PATH == WORKSPACE_ROOT \o SRC_DIR \o OLD_COMPONENTS_REL_PATH

NEW_COMPONENTS_ABS_PATH == WORKSPACE_ROOT \o SRC_DIR \o NEW_COMPONENTS_REL_PATH

CORE_ABS_PATH == WORKSPACE_ROOT \o SRC_DIR \o CORE_DIR_REL_PATH

TARGET_ABS_DIRS ==
    [k \in 1..Len(TARGET_DIRS_REL) |-> WORKSPACE_ROOT \o SRC_DIR \o TARGET_DIRS_REL[k]]

\* the two programs
Relocation == "update_imports"

Aliasing == "use_core_alias"

Tools == {Relocation, Aliasing}

\* the literal a matched path begins with in the tool's IMPORT_REGEX
RegexLead(tool) == IF tool = Relocation THEN "." ELSE "../"

(***************************************************************************)
(* Rewrite Strategy.  "" stands for `new_relative_path_str = None`.        *)
(***************************************************************************)
\* str(Path(rel).as_posix()), then "./" in front unless it starts with
\* "../" or "./"
FormatRelative(rel) ==
    LET str == as_posix(PathParts(rel)) IN
    IF startswith(str, "../") \/ startswith(str, "./") THEN str
    ELSE "./" \o str

\* RelocationPath with Scenario B's `!= original_relative_path_str` left out
RelocationPath_always_recomputed(file_path, original_relative_path_str) ==
    LET current_file_dir == parent(file_path)
        is_file_in_new_components ==
            is_relative_to(file_path, NEW_COMPONENTS_ABS_PATH)
        imported_module_abs_path ==
            resolve(current_file_dir, original_relative_path_str)
    IN IF /\ ~is_file_in_new_components
          /\ is_relative_to(imported_module_abs_path, OLD_COMPONENTS_ABS_PATH)
       THEN LET path_within_components ==
                    relative_to(imported_module_abs_path, OLD_COMPONENTS_ABS_PATH)
                new_imported_module_abs_path ==
                    normalize(<<>>, NEW_COMPONENTS_ABS_PATH \o path_within_components)
            IN FormatRelative(relpath(new_imported_module_abs_path, current_file_dir))
       ELSE IF /\ is_file_in_new_components
               /\ ~is_relative_to(imported_module_abs_path, OLD_COMPONENTS_ABS_PATH)
       THEN LET new_relative_path_str_temp ==
                    FormatRelative(relpath(imported_module_abs_path, current_file_dir))
            IN new_relative_path_str_temp
       ELSE ""

\* update_imports.py, Scenario A and Scenario B
RelocationPath(file_path, original_relative_path_str) ==
    LET current_file_dir == parent(file_path)
        is_file_in_new_components ==
            is_relative_to(file_path, NEW_COMPONENTS_ABS_PATH)
        imported_module_abs_path ==
            resolve(current_file_dir, original_relative_path_str)
    IN IF /\ ~is_file_in_new_components
          /\ is_relative_to(imported_module_abs_path, OLD_COMPONENTS_ABS_PATH)
       THEN LET path_within_components ==
                    relative_to(imported_module_abs_path, OLD_COMPONENTS_ABS_PATH)
                new_imported_module_abs_path ==
                    normalize(<<>>, NEW_COMPONENTS_ABS_PATH \o path_within_components)
            IN FormatRelative(relpath(new_imported_module_abs_path, current_file_dir))
       ELSE IF /\ is_file_in_new_components
               /\ ~is_relative_to(imported_module_abs_path, OLD_COMPONENTS_ABS_PATH)
       THEN LET new_relative_path_str_temp ==
                    FormatRelative(relpath(imported_module_abs_path, current_file_dir))
            IN IF new_relative_path_str_temp # original_relative_path_str
               THEN new_relative_path_str_temp
               ELSE ""
       ELSE ""

\* re.sub(r'\\.(ts|tsx)$', '', s): the pattern is a backslash, any one
\* character, then ts or tsx at the end of the string
StripExtension(s) ==
    LET n == Len(s) IN
    IF n >= 5 /\ Char(s, n - 4) = "\\" /\ endswith(s, "tsx")
    THEN SubSeq(s, 1, n - 5)
    ELSE IF n >= 4 /\ Char(s, n - 3) = "\\" /\ endswith(s, "ts")
    THEN SubSeq(s, 1, n - 4)
    ELSE s

\* use_core_alias.py: the alias of a target under src/core
AliasPath(file_path, original_relative_path_str) ==
    LET current_file_dir == parent(file_path)
        imported_module_abs_path ==
            resolve(current_file_dir, original_relative_path_str)
    IN IF is_relative_to(imported_module_abs_path, CORE_ABS_PATH)
       THEN LET path_within_core ==
                    relative_to(imported_module_abs_path, CORE_ABS_PATH)
            IN StripExtension("@core/" \o as_posix(path_within_core))
       ELSE ""

NewPath(tool, file_path, original_relative_path_str) ==
    IF tool = Relocation
    THEN RelocationPath(file_path, original_relative_path_str)
    ELSE AliasPath(file_path, original_relative_path_str)

(***************************************************************************)
(* File Rewriter: the loop over the lines of update_file_imports           *)
(***************************************************************************)
\* `if new_relative_path_str:` - the replacement of the path inside the
\* matched statement, and of the statement inside the line
ApplyUpdate(line, match, new_relative_path_str) ==
    IF new_relative_path_str # ""
    THEN [line |-> replace(line, match.stmt,
                           replace(match.stmt, match.path, new_relative_path_str)),
          modified |-> TRUE, match |-> match]
    ELSE [line |-> line, modified |-> FALSE, match |-> match]

\* `if match:`
ApplyMatch(tool, file_path, line, match) ==
    IF match.found
    THEN ApplyUpdate(line, match, NewPath(tool, file_path, match.path))
    ELSE [line |-> line, modified |-> FALSE, match |-> match]

\* the body of `for i, line in enumerate(lines)`: the value of new_lines[i],
\* whether the line set file_modified, and the match
RewriteLine(tool, file_path, line) ==
    ApplyMatch(tool, file_path, line, IMPORT_REGEX_search(line, RegexLead(tool)))

\* Path.read_text(): text mode with universal newlines turns \r\n and \r
\* into \n
read_text(bytes) == replace(replace(bytes, "\r\n", "\n"), "\r", "\n")

\* Path.write_text(): \n is written as os.linesep, which is \n
write_text(text) == text

\* "\n".join(new_lines), and the trailing newline `if content.endswith('\n')`
NewContent(content, new_lines) ==
    join(new_lines, "\n") \o (IF endswith(content, "\n") THEN "\n" ELSE "")

Assemble(file_path, content, lines, out) ==
    [file          |-> file_path,
     content       |-> content,
     lines         |-> lines,
     matches       |-> [i \in 1..Len(lines) |-> out[i].match],
     new_lines     |-> [i \in 1..Len(lines) |-> out[i].line],
     file_modified |-> \E i \in 1..Len(lines) : out[i].modified,
     new_content   |-> NewContent(content, [i \in 1..Len(lines) |-> out[i].line])]

RewriteLines(tool, file_path, content, lines) ==
    Assemble(file_path, content, lines,
             [i \in 1..Len(lines) |-> RewriteLine(tool, file_path, lines[i])])

\* update_file_imports up to `if file_modified:`: its locals after the loop
\* (content, lines, the match of each line, new_lines, file_modified) and
\* the new_content it would write
Rewrite(tool, file_path, content) ==
    RewriteLines(tool, file_path, content, splitlines(content))

(***************************************************************************)
(* Migration Driver: the traversal of main()                               *)
(***************************************************************************)
\* `d not in ('node_modules', '.git', 'dist', 'build')`
PrunedDirNames == {"node_modules", ".git", "dist", "build"}

\* `filename.endswith((".ts", ".tsx"))`
IsSourceFile(file_path) ==
    LET filename == file_path[Len(file_path)] IN
    endswith(filename, ".ts") \/ endswith(filename, ".tsx")

\* the orders a list of the members of S can come in
Perms(S) ==
    {p \in [1..Cardinality(S) -> S] :
        \A i, j \in 1..Cardinality(S) : i # j => p[i] # p[j]}

RECURSIVE Flatten(_)
Flatten(seqs) ==
    IF Len(seqs) = 0 THEN <<>> ELSE Head(seqs) \o Flatten(Tail(seqs))

\* os.walk(top), top-down, with `dirs[:]` pruned: the orders in which the
\* files F under top can be yielded.  A directory's own files come first,
\* in listing order, then each kept subdirectory in listing order; listing
\* order is arbitrary.
RECURSIVE os_walk(_, _)
os_walk(top, F) ==
    LET here   == {f \in F : parent(f) = top}
        subs   == {SubSeq(f, 1, Len(top) + 1) : f \in F \ here}
        kept   == {d \in subs : d[Len(d)] \notin PrunedDirNames}
        below  == [d \in kept |-> os_walk(d, {f \in F : is_relative_to(f, d)})]
        picks  == {w \in [kept -> UNION {below[d] : d \in kept}] :
                      \A d \in kept : w[d] \in below[d]}
    IN {h \o Flatten([k \in 1..Cardinality(kept) |-> w[o[k]]]) :
            h \in Perms(here), o \in Perms(kept), w \in picks}

\* the files under top, among those on disk
Under(top, files) == {f \in files : is_relative_to(f, top)}

\* update_imports.main: the files update_file_imports is called on, in the
\* orders os.walk(SRC_ABS_PATH) can yield them
RelocationWalks(files) ==
    {SelectSeq(w, LAMBDA f :
         IsSourceFile(f) /\ ~is_relative_to(f, OLD_COMPONENTS_ABS_PATH)) :
     w \in os_walk(SRC_ABS_PATH, Under(SRC_ABS_PATH, files))}

\* use_core_alias.main: one walk per target directory that exists, in the
\* order of TARGET_ABS_DIRS
RECURSIVE AliasingWalksFrom(_, _, _)
AliasingWalksFrom(k, files, existing) ==
    IF k > Len(TARGET_ABS_DIRS) THEN {<<>>}
    ELSE LET target_dir == TARGET_ABS_DIRS[k]
             mine == IF target_dir \in existing
                     THEN {SelectSeq(w, IsSourceFile) :
                             w \in os_walk(target_dir, Under(target_dir, files))}
                     ELSE {<<>>}
         IN {a \o b : a \in mine, b \in AliasingWalksFrom(k + 1, files, existing)}

Walks(t, files, existing) ==
    IF t = Relocation THEN RelocationWalks(files)
    ELSE AliasingWalksFrom(1, files, existing)

\* Affirmative as `confirm.lower() == 'no'` is false
Affirmative_unless_no(answer) == lower(answer) # "no"

\* `confirm.lower() != 'yes'` is false
Affirmative(answer) == lower(answer) = "yes"

\* WillWrite with the test of dry_run left out
WillWrite_ignoring_dry_run(file_modified, dry) == file_modified

\* `if file_modified: ... if not dry_run:` - the branch that writes
WillWrite(file_modified, dry) == file_modified /\ ~dry

\* PreconditionHolds testing the old components directory
PreconditionHolds_of_old_root(t, existing) ==
    t = Relocation => WORKSPACE_ROOT \o <<"src", "components">> \in existing

\* the precondition main tests before the walk: update_imports returns when
\* NEW_COMPONENTS_ABS_PATH does not exist; use_core_alias tests nothing here
PreconditionHolds(t, existing) ==
    t = Relocation => NEW_COMPONENTS_ABS_PATH \in existing

\* what a failed write_text can leave in the file: the old bytes when the
\* file could not be opened; a prefix of the new bytes when the error came
\* after open(mode='w') had truncated it
FailedWriteLeaves(old_bytes, new_bytes) ==
    {old_bytes} \cup
    {SubSeq(new_bytes, 1, n) : n \in {0, Len(new_bytes) \div 2}}

(***************************************************************************)
(* Bounds and the inputs drawn within them                                 *)
(***************************************************************************)
\* files in the tree of a run of the driver
MaxFiles == 2

\* lines in the file a rewrite is applied to
MaxLines == 2

\* invocations of the tool, one after the other on the same tree
MaxRuns == 2

AppTs == SRC_ABS_PATH \o <<"entrypoints", "app.ts">>

BtnTsx == NEW_COMPONENTS_ABS_PATH \o <<"Btn.tsx">>

OldTs == OLD_COMPONENTS_ABS_PATH \o <<"Old.ts">>

VendoredTs == SRC_ABS_PATH \o <<"cli", "node_modules", "m.ts">>

NotesMd == SRC_ABS_PATH \o <<"cli", "notes.md">>

Locations == {AppTs, BtnTsx, OldTs, VendoredTs, NotesMd}

\* what the operator types at the prompt
Answers == {"yes", "YES", "no", ""}

DriverContents ==
    {"import { Btn } from '../components/Btn';\nexport {}\n",
     "import { load } from \"../core/file\"\r\nexport {}\r\n",
     "const x = 1;"}

\* the directories of the tree: the ancestors of its files, and those of
\* `extra` (directories that hold no file of the tree)
RECURSIVE Ancestors(_)
Ancestors(path) ==
    IF Len(path) <= 1 THEN {} ELSE {parent(path)} \cup Ancestors(parent(path))

DirsOf(files, extra) ==
    UNION {Ancestors(f) : f \in files} \cup
    UNION {Ancestors(d) \cup {d} : d \in extra}

(***************************************************************************)
(* State                                                                   *)
(***************************************************************************)
VARIABLES
    tool,      \* which script runs
    dry_run,   \* args.dry_run of the current invocation
    disk,      \* file path -> the bytes of the file
    dirs,      \* the directories that exist
    pc,        \* where main() is: "start", "check", "walk", "file" (in
               \* update_file_imports, after its loop), or where it ended:
               \* "aborted", "missing", "done"
    confirm,   \* confirm.lower(), "-" before the prompt was answered
    todo,      \* the files the walk has yet to yield, in order
    outcome,   \* file path -> how update_file_imports left it in this run
    last,      \* the locals of the last call of update_file_imports that
               \* read its file
    run,       \* the number of the current invocation
    disk0,     \* history: disk when the current invocation began
    rewrote    \* history: <<run, file, line index>> of the references
               \* rewritten and written to disk

vars == <<tool, dry_run, disk, dirs, pc, confirm, todo, outcome, last, run,
          disk0, rewrote>>

NoCall ==
    [file |-> <<>>, content |-> "", lines |-> <<>>, matches |-> <<>>,
     new_lines |-> <<>>, file_modified |-> FALSE, new_content |-> ""]

Fresh(d) == [f \in DOMAIN d |-> "none"]

InitWith(trees, contents, extras) ==
    /\ tool \in Tools
    /\ dry_run \in BOOLEAN
    /\ \E tree \in trees : disk \in [tree -> contents]
    /\ \E extra \in extras : dirs = DirsOf(DOMAIN disk, extra)
    /\ pc = "start"
    /\ confirm = "-"
    /\ todo = <<>>
    /\ outcome = Fresh(disk)
    /\ last = NoCall
    /\ run = 1
    /\ disk0 = disk
    /\ rewrote = {}

\* a tree of at most MaxFiles files; the configured roots may exist or not
Init ==
    InitWith({t \in SUBSET Locations : Cardinality(t) \in 1..MaxFiles},
             DriverContents,
             SUBSET {NEW_COMPONENTS_ABS_PATH, CORE_ABS_PATH})

(***************************************************************************)
(* main()                                                                  *)
(***************************************************************************)
\* --dry-run: no prompt
DryRunStart ==
    /\ pc = "start"
    /\ dry_run
    /\ pc' = "check"
    /\ UNCHANGED <<tool, dry_run, disk, dirs, confirm, todo, outcome, last,
                   run, disk0, rewrote>>

\* the prompt, answered 'yes' in any case of the letters
Confirm ==
    /\ pc = "start"
    /\ ~dry_run
    /\ \E answer \in Answers :
        /\ Affirmative(answer)
        /\ confirm' = lower(answer)
    /\ pc' = "check"
    /\ UNCHANGED <<tool, dry_run, disk, dirs, todo, outcome, last, run,
                   disk0, rewrote>>

\* the prompt, answered anything else: "Aborted." and return
Abort ==
    /\ pc = "start"
    /\ ~dry_run
    /\ \E answer \in Answers :
        /\ ~Affirmative(answer)
        /\ confirm' = lower(answer)
    /\ pc' = "aborted"
    /\ UNCHANGED <<tool, dry_run, disk, dirs, todo, outcome, last, run,
                   disk0, rewrote>>

\* update_imports: "Error: New components directory does not exist", return
RootMissing ==
    /\ pc = "check"
    /\ ~PreconditionHolds(tool, dirs)
    /\ pc' = "missing"
    /\ UNCHANGED <<tool, dry_run, disk, dirs, confirm, todo, outcome, last,
                   run, disk0, rewrote>>

\* the walk begins; the listing order is the environment's
BeginWalk ==
    /\ pc = "check"
    /\ PreconditionHolds(tool, dirs)
    /\ todo' \in Walks(tool, DOMAIN disk, dirs)
    /\ pc' = "walk"
    /\ UNCHANGED <<tool, dry_run, disk, dirs, confirm, outcome, last, run,
                   disk0, rewrote>>

(***************************************************************************)
(* update_file_imports(file_path, dry_run), called on the next file        *)
(***************************************************************************)
\* read_text raises: "Error reading", return
ReadError ==
    /\ pc = "walk"
    /\ Len(todo) > 0
    /\ outcome' = [outcome EXCEPT ![Head(todo)] = "read_error"]
    /\ todo' = Tail(todo)
    /\ UNCHANGED <<tool, dry_run, disk, dirs, pc, confirm, last, run, disk0,
                   rewrote>>

\* read_text returns, and the loop over the lines runs
ReadAndRewrite ==
    /\ pc = "walk"
    /\ Len(todo) > 0
    /\ last' = Rewrite(tool, Head(todo), read_text(disk[Head(todo)]))
    /\ pc' = "file"
    /\ UNCHANGED <<tool, dry_run, disk, dirs, confirm, todo, outcome, run,
                   disk0, rewrote>>

\* no line set file_modified: return
NoChange ==
    /\ pc = "file"
    /\ ~last.file_modified
    /\ outcome' = [outcome EXCEPT ![last.file] = "unchanged"]
    /\ todo' = Tail(todo)
    /\ pc' = "walk"
    /\ UNCHANGED <<tool, dry_run, disk, dirs, confirm, last, run, disk0,
                   rewrote>>

\* file_modified and dry_run: "DRY RUN: Would update"
DryRunReport ==
    /\ pc = "file"
    /\ last.file_modified
    /\ ~WillWrite(last.file_modified, dry_run)
    /\ outcome' = [outcome EXCEPT ![last.file] = "dry_run"]
    /\ todo' = Tail(todo)
    /\ pc' = "walk"
    /\ UNCHANGED <<tool, dry_run, disk, dirs, confirm, last, run, disk0,
                   rewrote>>

\* file_modified and not dry_run: write_text succeeds, "UPDATED"
Update ==
    /\ pc = "file"
    /\ WillWrite(last.file_modified, dry_run)
    /\ disk' = [disk EXCEPT ![last.file] = write_text(last.new_content)]
    /\ outcome' = [outcome EXCEPT ![last.file] = "updated"]
    /\ rewrote' = rewrote \cup
          {<<run, last.file, i>> :
              i \in {k \in 1..Len(last.lines) : last.new_lines[k] # last.lines[k]}}
    /\ todo' = Tail(todo)
    /\ pc' = "walk"
    /\ UNCHANGED <<tool, dry_run, dirs, confirm, last, run, disk0>>

\* file_modified and not dry_run: write_text raises, "ERROR writing"
WriteError ==
    /\ pc = "file"
    /\ WillWrite(last.file_modified, dry_run)
    /\ \E left \in FailedWriteLeaves(disk[last.file], write_text(last.new_content)) :
          disk' = [disk EXCEPT ![last.file] = left]
    /\ outcome' = [outcome EXCEPT ![last.file] = "write_error"]
    /\ todo' = Tail(todo)
    /\ pc' = "walk"
    /\ UNCHANGED <<tool, dry_run, dirs, confirm, last, run, disk0, rewrote>>

\* the walk is over: "Processing complete."
Finish ==
    /\ pc = "walk"
    /\ Len(todo) = 0
    /\ pc' = "done"
    /\ UNCHANGED <<tool, dry_run, disk, dirs, confirm, todo, outcome, last,
                   run, disk0, rewrote>>

Next ==
    \/ DryRunStart
    \/ Confirm
    \/ Abort
    \/ RootMissing
    \/ BeginWalk
    \/ ReadError
    \/ ReadAndRewrite
    \/ NoChange
    \/ DryRunReport
    \/ Update
    \/ WriteError
    \/ Finish

Spec == Init /\ [][Next]_vars

(***************************************************************************)
(* The rewrite applied to one file, and applied again to its own output    *)
(***************************************************************************)
\* the path texts of the references
RefPaths ==
    {"../components/Btn", "./../components/ui/Icon.ts", "../components",
     "../components2/x", "../shared/Icon", "./../shared/Icon", "./Icon",
     ".hidden/x", "../../components/Btn", "../core/utils/file",
     "../core/utils/file.ts", "../../core/a.tsx", "../core/a\\.ts",
     "../core2/x", "../core"}

\* those also written with double quotes, without bindings, and in lines
\* that hold the path or the import twice
TwicePaths == {"../components/Btn", "./../shared/Icon", "../core/utils/file.ts"}

FirstLines ==
    {"import { A } from '" \o p \o "';" : p \in RefPaths} \cup
    {"import { A } from \"" \o p \o "\"" : p \in TwicePaths} \cup
    {"import \"" \o p \o "\";" : p \in TwicePaths} \cup
    {"import /* " \o p \o " */ A from '" \o p \o "'" : p \in TwicePaths} \cup
    {"import A from '" \o p \o "'; import A from '" \o p \o "'" : p \in TwicePaths} \cup
    {"import pkg from 'some-package'", "const x = 1;"}

MoreLines == {"export {}", "import B from '../components/B'"}

\* the line-ending conventions of a file
LineEndings == {"\n", "\r\n"}

\* a first line and up to MaxLines - 1 more
LineLists ==
    UNION {{<<l>> \o m : l \in FirstLines, m \in [1..n -> MoreLines]} :
           n \in 0..(MaxLines - 1)}

\* the lines joined by the file's line ending, with or without a final one;
\* and two files that hold a form feed and a bare carriage return
RewriteContents ==
    UNION {{join(ls, e) \o last_e : ls \in LineLists, last_e \in {"", e}} :
           e \in LineEndings} \cup
    {"import A from '../components/Btn'\fexport {}\n",
     "import A from \"../core/utils/file\"\rexport {}\r"}

\* one source file, outside or inside the new components root; both
\* configured roots exist
InitRewrite ==
    InitWith({{AppTs}, {BtnTsx}}, RewriteContents,
             {{NEW_COMPONENTS_ABS_PATH, CORE_ABS_PATH}})

\* the tool is invoked again on the tree a run that wrote has left (a run
\* that wrote nothing leaves the tree of a first run)
Rerun ==
    /\ pc = "done"
    /\ disk # disk0
    /\ run < MaxRuns
    /\ run' = run + 1
    /\ dry_run' \in BOOLEAN
    /\ pc' = "start"
    /\ confirm' = "-"
    /\ todo' = <<>>
    /\ outcome' = Fresh(disk)
    /\ last' = NoCall
    /\ disk0' = disk
    /\ UNCHANGED <<tool, disk, dirs, rewrote>>

NextRewrite ==
    \/ DryRunStart
    \/ Confirm
    \/ Abort
    \/ BeginWalk
    \/ ReadAndRewrite
    \/ NoChange
    \/ DryRunReport
    \/ Update
    \/ Finish
    \/ Rerun

SpecRewrite == InitRewrite /\ [][NextRewrite]_vars

(***************************************************************************)
(* The vocabulary of the claims (spec.md 4.1, 4.3, 4.4)                    *)
(***************************************************************************)
\* isUnder(candidate, root): equal to root, or a descendant of it
IsUnder(candidate, root) ==
    \E k \in 0..Len(candidate) : SubSeq(candidate, 1, k) = root

\* `T minus root`: the remainder of a path below a root it is under
Below(path, root) == SubSeq(path, Len(root) + 1, Len(path))

\* the root a reference must point into to be rewritten
ConfiguredRoot(t) ==
    IF t = Relocation THEN OLD_COMPONENTS_ABS_PATH ELSE CORE_ABS_PATH

\* the root the tool rewrites towards
TargetRoot(t) ==
    IF t = Relocation THEN NEW_COMPONENTS_ABS_PATH ELSE CORE_ABS_PATH

\* the lines of the last call
LastLines == 1..Len(last.lines)

\* the reference of line i of the last call resolved against its file
LastTarget(i) == resolve(parent(last.file), last.matches[i].path)

\* line i of the last call holds a reference, and its target is outside root
RefOutside(i, root) ==
    /\ last.matches[i].found
    /\ ~IsUnder(LastTarget(i), root)

\* the path text of the first import construct of a line
PathIn(t, line) == IMPORT_REGEX_search(line, RegexLead(t)).path

\* no file was read or written in this run
NothingTouched ==
    /\ disk = disk0
    /\ \A f \in DOMAIN outcome : outcome[f] = "none"
    /\ pc # "file"

(***************************************************************************)
(* C1                                                                      *)
(***************************************************************************)
\* C1: a run started with --dry-run leaves the bytes of every file as they
\* were before the run, also of the files a rewrite was computed for.
C1_DryRunLeavesFiles == dry_run => disk = disk0

\* a dry run that is over and computed a rewrite for some file
C1_Witness ==
    /\ dry_run
    /\ pc = "done"
    /\ \E f \in DOMAIN outcome : outcome[f] = "dry_run"

(***************************************************************************)
(* C2                                                                      *)
(***************************************************************************)
\* C2: without --dry-run no file is read or written before the prompt was
\* answered 'yes', and after any other answer the run has ended with every
\* file as it was.
C2_WriteNeedsYes ==
    ~dry_run =>
        /\ (disk # disk0 \/ pc \in {"check", "walk", "file", "missing", "done"})
               => confirm = "yes"
        /\ confirm \notin {"-", "yes"} => (pc = "aborted" /\ NothingTouched)

\* a file written after the answer 'yes'
C2_Witness ==
    /\ ~dry_run
    /\ confirm = "yes"
    /\ \E f \in DOMAIN outcome : outcome[f] = "updated" /\ disk[f] # disk0[f]

(***************************************************************************)
(* C3                                                                      *)
(***************************************************************************)
\* C3 as stated: for both tools, when the configured target root (the new
\* components root, the core root) does not exist, no file is read or
\* written.
C3_AbortsForBothTools == TargetRoot(tool) \notin dirs => NothingTouched

\* C3 as amended: for the Relocation tool, when the new components root
\* does not exist the run ends before any file is read or written.
C3_RelocationAborts ==
    (tool = Relocation /\ NEW_COMPONENTS_ABS_PATH \notin dirs) =>
        /\ NothingTouched
        /\ pc \in {"start", "check", "aborted", "missing"}

\* the Relocation tool has stopped at the missing root, with a source file
\* outside the old root on disk
C3_Witness ==
    /\ tool = Relocation
    /\ NEW_COMPONENTS_ABS_PATH \notin dirs
    /\ pc = "missing"
    /\ \E f \in DOMAIN disk :
          IsSourceFile(f) /\ ~IsUnder(f, OLD_COMPONENTS_ABS_PATH)

(***************************************************************************)
(* C4                                                                      *)
(***************************************************************************)
\* C4 as stated: a matched reference whose target lies outside the
\* configured root leaves its line as written, wherever the file is.
C4_OutsideRootUnchanged ==
    \A i \in LastLines :
        RefOutside(i, ConfiguredRoot(tool)) => last.new_lines[i] = last.lines[i]

\* C4 as amended: a matched reference whose target lies outside the
\* configured root leaves its line as written, except under Relocation in
\* a file inside the new root, where the path text becomes the relative
\* path from the file's directory to that same target.
C4_OutsideRootUnchangedOrRecomputed ==
    \A i \in LastLines :
        RefOutside(i, ConfiguredRoot(tool)) =>
            IF tool = Relocation /\ IsUnder(last.file, NEW_COMPONENTS_ABS_PATH)
            THEN PathIn(tool, last.new_lines[i]) =
                     FormatRelative(relpath(LastTarget(i), parent(last.file)))
            ELSE last.new_lines[i] = last.lines[i]

\* a file that was modified and holds a reference to a target outside the
\* configured root, left as written
C4_Witness ==
    /\ last.file_modified
    /\ \E i \in LastLines :
          /\ RefOutside(i, ConfiguredRoot(tool))
          /\ last.new_lines[i] = last.lines[i]

(***************************************************************************)
(* C5                                                                      *)
(***************************************************************************)
\* the directory a file was in before src/components moved
DirBeforeMove(dir) ==
    IF IsUnder(dir, NEW_COMPONENTS_ABS_PATH)
    THEN OLD_COMPONENTS_ABS_PATH \o Below(dir, NEW_COMPONENTS_ABS_PATH)
    ELSE dir

\* oldRoot -> newRoot substituted in a location
Moved(path) ==
    IF IsUnder(path, OLD_COMPONENTS_ABS_PATH)
    THEN NEW_COMPONENTS_ABS_PATH \o Below(path, OLD_COMPONENTS_ABS_PATH)
    ELSE path

\* C5: for every reference Relocation rewrote, the new path text resolved
\* against the file's directory after the move is the old path text
\* resolved against the file's directory before the move, with oldRoot
\* replaced by newRoot.
C5_IdentityPreserved ==
    tool = Relocation =>
        \A i \in LastLines :
            last.new_lines[i] # last.lines[i] =>
                resolve(parent(last.file), PathIn(tool, last.new_lines[i])) =
                Moved(resolve(DirBeforeMove(parent(last.file)),
                              last.matches[i].path))

(***************************************************************************)
(* C6                                                                      *)
(***************************************************************************)
\* the references of file f that an earlier run rewrote and wrote
RewrittenBefore(f) == {t \in rewrote : t[1] < run /\ t[2] = f}

\* C6: a later run of Relocation over the output of an earlier run leaves
\* every reference the earlier run rewrote as it is, and does not modify
\* the file.
C6_SecondRunUnchanged ==
    tool = Relocation =>
        /\ \A t \in RewrittenBefore(last.file) :
              /\ t[3] \in LastLines
              /\ last.new_lines[t[3]] = last.lines[t[3]]
        /\ RewrittenBefore(last.file) # {} => ~last.file_modified

\* a second run of Relocation that is over, on a file the first run rewrote
C6_Witness ==
    /\ tool = Relocation
    /\ run > 1
    /\ pc = "done"
    /\ RewrittenBefore(last.file) # {}
    /\ outcome[last.file] = "unchanged"

(***************************************************************************)
(* C7                                                                      *)
(***************************************************************************)
\* a trailing .ts or .tsx removed
StripSourceExtension(s) ==
    IF endswith(s, ".tsx") THEN SubSeq(s, 1, Len(s) - 4)
    ELSE IF endswith(s, ".ts") THEN SubSeq(s, 1, Len(s) - 3)
    ELSE s

\* C7: under Aliasing, a matched reference whose target T is under the core
\* root has its path text replaced by '@core/' and the remainder of T below
\* the core root, a trailing .ts or .tsx removed.
C7_AliasResult ==
    tool = Aliasing =>
        \A i \in LastLines :
            (last.matches[i].found /\ IsUnder(LastTarget(i), CORE_ABS_PATH)) =>
                find(last.new_lines[i],
                     last.matches[i].quote \o "@core/" \o
                     StripSourceExtension(
                         join(Below(LastTarget(i), CORE_ABS_PATH), "/")) \o
                     last.matches[i].quote,
                     1) # 0

(***************************************************************************)
(* C8                                                                      *)
(***************************************************************************)
\* the lines of a file as stored: each text with the line ending that
\* follows it (\r\n, \n or \r; "" after a last line without one)
RECURSIVE StoredLines(_)
StoredLines(bytes) ==
    IF Len(bytes) = 0 THEN <<>>
    ELSE LET ends == {k \in 1..Len(bytes) : Char(bytes, k) \in {"\r", "\n"}} IN
         IF ends = {} THEN <<[text |-> bytes, ending |-> ""]>>
         ELSE LET k == Min(ends)
                  w == IF StartsWithAt(bytes, "\r\n", k) THEN 2 ELSE 1
              IN <<[text |-> SubSeq(bytes, 1, k - 1),
                    ending |-> SubSeq(bytes, k, k + w - 1)]>> \o
                 StoredLines(SubSeq(bytes, k + w, Len(bytes)))

SameEndings(t, f, before, after) ==
    /\ Len(before) = Len(after)
    /\ \A j \in 1..Len(before) :
          /\ j <= Len(after)
          /\ before[j].ending = after[j].ending
          /\ before[j].text # after[j].text =>
                RewriteLine(t, f, before[j].text).modified

\* C8: a file that was rewritten has, line by line, the line endings it had
\* before (so a final newline iff it had one), and every line without a
\* rewritten reference character for character.
C8_LineEndingsKept ==
    \A f \in DOMAIN outcome :
        outcome[f] = "updated" =>
            SameEndings(tool, f, StoredLines(disk0[f]), StoredLines(disk[f]))

(***************************************************************************)
(* C9                                                                      *)
(***************************************************************************)
\* the line but for the matched path: what is before it and what is after it
BeforePath(line, match) == SubSeq(line, 1, match.at - 1)

AfterPath(line, match) == SubSeq(line, match.at + Len(match.path), Len(line))

\* C9: a rewritten line differs from the line read only in the matched path
\* substring: what stood before it and what stood after it are verbatim.
C9_OnlyMatchedPathChanges ==
    \A i \in LastLines :
        last.new_lines[i] # last.lines[i] =>
            /\ startswith(last.new_lines[i], BeforePath(last.lines[i], last.matches[i]))
            /\ endswith(last.new_lines[i], AfterPath(last.lines[i], last.matches[i]))
            /\ Len(last.new_lines[i]) >=
                   Len(BeforePath(last.lines[i], last.matches[i])) +
                   Len(AfterPath(last.lines[i], last.matches[i]))

(***************************************************************************)
(* C10                                                                     *)
(***************************************************************************)
\* the files the walk of this run yields
Candidates ==
    LET w == CHOOSE o \in Walks(tool, DOMAIN disk, dirs) : TRUE IN
    {w[k] : k \in 1..Len(w)}

\* C10: a file whose read or write failed is on disk as it was, a run that
\* is over has processed every candidate file whatever failed, and a file
\* that was written holds its rewritten text.
C10_ErrorsAreLocal ==
    /\ \A f \in DOMAIN outcome :
          outcome[f] \in {"read_error", "write_error"} => disk[f] = disk0[f]
    /\ pc = "done" => \A f \in Candidates : outcome[f] # "none"
    /\ \A f \in DOMAIN outcome :
          outcome[f] = "updated" =>
              disk[f] = write_text(Rewrite(tool, f, read_text(disk0[f])).new_content)

====
